---- MODULE Spec2Model ----
(***************************************************************************)
(* Model of src/Anomaly.py: class AnomalyDetector (rolling-window z-score  *)
(* with an EWMA drift tracker).                                            *)
(*                                                                         *)
(* Arithmetic is exact: samples are integers, every derived quantity is a  *)
(* rational [n, d] in lowest terms with d > 0, and [n |-> 0, d |-> 0] is   *)
(* NaN (what numpy returns for the mean of an empty window).  The standard *)
(* deviation is carried as its square, so "std > 0" is "variance > 0" and  *)
(* "abs(z) > z_thresh" is decided on z^2.  Rounding of IEEE doubles is not *)
(* modelled.                                                               *)
(***************************************************************************)
EXTENDS Integers, Sequences, FiniteSets, TLC

\* ------------------------------------------------------------- bounds
MaxWindow == 5
MaxCalls == 6
MaxFrames == 10

Detectors == {1, 2}
Values == {0 - 30, 10, 50}
WindowSizes == (0 - 1) .. MaxWindow

\* ------------------------------------------------- exact rationals
Abs(x) == IF x < 0 THEN 0 - x ELSE x

RECURSIVE GCD(_, _)
GCD(a, b) == IF b = 0 THEN a ELSE GCD(b, a % b)

NaN == [n |-> 0, d |-> 0]
IsNaN(x) == x.d = 0

R(num, den) ==
    IF den = 0 THEN NaN
    ELSE LET g == GCD(Abs(num), Abs(den))
             s == IF den < 0 THEN 0 - 1 ELSE 1
         IN  [n |-> (s * num) \div g, d |-> (s * den) \div g]

FromInt(i) == [n |-> i, d |-> 1]
Zero == FromInt(0)
One == FromInt(1)

LCM(a, b) == (a \div GCD(a, b)) * b

RAdd(x, y) ==
    IF IsNaN(x) \/ IsNaN(y) THEN NaN
    ELSE LET l == LCM(x.d, y.d)
         IN  R(x.n * (l \div x.d) + y.n * (l \div y.d), l)

RNeg(x) == [n |-> 0 - x.n, d |-> x.d]
RSub(x, y) == RAdd(x, RNeg(y))

RMul(x, y) ==
    IF IsNaN(x) \/ IsNaN(y) THEN NaN
    ELSE LET a == R(x.n, y.d)
             b == R(y.n, x.d)
         IN  [n |-> a.n * b.n, d |-> a.d * b.d]

RDiv(x, y) ==
    IF IsNaN(x) \/ IsNaN(y) \/ y.n = 0 THEN NaN
    ELSE RMul(x, R(y.d, y.n))

RSq(x) == RMul(x, x)

\* Comparisons with NaN are False, as in IEEE arithmetic.
RGt(x, y) ==
    /\ ~IsNaN(x)
    /\ ~IsNaN(y)
    /\ x.n * y.d > y.n * x.d

RECURSIVE SumSeq(_)
SumSeq(s) == IF s = <<>> THEN 0 ELSE Head(s) + SumSeq(Tail(s))

RECURSIVE SumSqDev(_, _)
SumSqDev(s, m) ==
    IF s = <<>> THEN Zero
    ELSE RAdd(RSq(RSub(FromInt(Head(s)), m)), SumSqDev(Tail(s), m))

\* ------------------------------------------------------ configuration
Alphas == {Zero, R(1, 2), One, FromInt(2)}
ZThresholds == {0 - 1, 0, 1, 3}

\* -------------------------------------------------------------- state
\* Each variable maps a detector to:
\*   status        "new" before AnomalyDetector(...) runs, then "ready", or
\*                 "error" when __init__ raised (lines 42-48)
\*   window_size, alpha, z_thresh   the configuration (lines 43-45)
\*   data_window   the deque, oldest sample first (line 46)
\*   ewma_mean, ewma_var            the drift tracker (lines 47-48)
\*   inputs        the values passed to detect_anomaly so far
\*   n_updates     the number of update_ewma calls so far
\*   last          the locals, path and result of the latest detect_anomaly
\* The driver (lines 83-121):
\*   x_vals, y_vals, anomaly_vals   the module-level plotting lists
\*   frame         the number of update(frame) calls made so far; the
\*                 animation hands the call its frame number
\*   stream_open   False once the generator has raised; a generator that
\*                 raised is finished and every later next() raises
\*   caught        where the latest update call raised into its except
\*                 clause: "none", "stream" (next(stream)) or "plot" (ax.*)
VARIABLES status, window_size, alpha, z_thresh, data_window, ewma_mean,
          ewma_var, inputs, n_updates, last,
          x_vals, y_vals, anomaly_vals, frame, stream_open, caught

driver_vars == <<x_vals, y_vals, anomaly_vals, frame, stream_open, caught>>

vars == <<status, window_size, alpha, z_thresh, data_window, ewma_mean,
          ewma_var, inputs, n_updates, last, driver_vars>>

NoCall == [path |-> "none", value |-> 0, len_before |-> 0, mean |-> Zero,
           std_sq |-> Zero, z_sq |-> Zero, ret |-> FALSE, events |-> <<>>]

\* The attributes of all detector objects, as one value.
Heap == [window_size |-> window_size, alpha |-> alpha, z_thresh |-> z_thresh,
         data_window |-> data_window, ewma_mean |-> ewma_mean,
         ewma_var |-> ewma_var, n_updates |-> n_updates, last |-> last]

\* Variant: data_window as a class attribute, one deque for all instances.
SlotShared(d) == 1

\* self.data_window is an attribute of the instance: each detector owns
\* its own deque.
Slot(d) == d

\* Variant: a plain list, no maxlen.
deque_append_unbounded(w, x, m) == Append(w, x)

\* Variant: at capacity the newest sample is evicted instead of the oldest.
deque_append_evict_newest(w, x, m) ==
    IF m = 0 THEN w
    ELSE IF Len(w) >= m THEN Append(SubSeq(w, 1, Len(w) - 1), x)
    ELSE Append(w, x)

\* Variant: at capacity the window is cleared before the append.
deque_append_reset(w, x, m) ==
    IF m = 0 THEN w
    ELSE IF Len(w) >= m THEN <<x>>
    ELSE Append(w, x)

\* collections.deque(maxlen=m).append(x)
deque_append(w, x, m) ==
    IF m = 0 THEN w
    ELSE IF Len(w) >= m THEN Append(Tail(w), x)
    ELSE Append(w, x)

\* np.mean over the window
np_mean(w) == R(SumSeq(w), Len(w))

\* Variant: sample standard deviation (ddof = 1).
np_std_sq_sample(w) == RDiv(SumSqDev(w, np_mean(w)), FromInt(Len(w) - 1))

\* np.std over the window, squared: mean of squared deviations (ddof = 0)
np_std_sq(w) == RDiv(SumSqDev(w, np_mean(w)), FromInt(Len(w)))

\* Variant: no zero-variance guard.
z_score_sq_unguarded(value, mean, std_sq) ==
    RDiv(RSq(RSub(FromInt(value), mean)), std_sq)

\* z_score = (value - mean) / std if std > 0 else 0, squared
z_score_sq(value, mean, std_sq) ==
    IF RGt(std_sq, Zero) THEN RDiv(RSq(RSub(FromInt(value), mean)), std_sq)
    ELSE Zero

\* abs(z_score) > self.z_thresh
abs_gt(z_sq, zt) == zt < 0 \/ RGt(z_sq, FromInt(zt * zt))

\* Variant: the deviation enters the variance without being squared.
update_ewma_unsquared(H, d, value) ==
    LET a == H.alpha[d]
        m == IF Len(H.data_window[Slot(d)]) = 0 THEN FromInt(value)
             ELSE RAdd(RMul(a, FromInt(value)),
                       RMul(RSub(One, a), H.ewma_mean[d]))
        s == IF Len(H.data_window[Slot(d)]) = 0 THEN Zero
             ELSE RAdd(RMul(a, RSub(FromInt(value), m)),
                       RMul(RSub(One, a), H.ewma_var[d]))
    IN  [H EXCEPT !.ewma_mean[d] = m, !.ewma_var[d] = s,
                  !.n_updates[d] = @ + 1]

update_ewma(H, d, value) ==
    LET a == H.alpha[d]
        m == IF Len(H.data_window[Slot(d)]) = 0 THEN FromInt(value)
             ELSE RAdd(RMul(a, FromInt(value)),
                       RMul(RSub(One, a), H.ewma_mean[d]))
        s == IF Len(H.data_window[Slot(d)]) = 0 THEN Zero
             ELSE RAdd(RMul(a, RSq(RSub(FromInt(value), m))),
                       RMul(RSub(One, a), H.ewma_var[d]))
    IN  [H EXCEPT !.ewma_mean[d] = m, !.ewma_var[d] = s,
                  !.n_updates[d] = @ + 1]

\* Variant: warm-up ends one call early.
not_enough_off_by_one(w, ws) == Len(w) < ws - 1

\* Variant: the call that fills the window still returns early.
not_enough_le(w, ws) == Len(w) <= ws

\* if len(self.data_window) < self.window_size: return False
not_enough(w, ws) == Len(w) < ws

\* Variant: the drift update is skipped when the window is flat (std = 0).
detect_anomaly_skip_flat(H, d, value) ==
    LET before == H.data_window[Slot(d)]
        w == deque_append(before, value, H.window_size[d])
        H1 == [H EXCEPT !.data_window[Slot(d)] = w]
    IN  IF not_enough(w, H.window_size[d])
        THEN [H1 EXCEPT !.last[d] =
                 [NoCall EXCEPT !.path = "early", !.value = value,
                                !.len_before = Len(before),
                                !.events = <<"append", "return">>]]
        ELSE LET mean == np_mean(w)
                 std_sq == np_std_sq(w)
                 z_sq == z_score_sq(value, mean, std_sq)
                 H2 == IF RGt(std_sq, Zero) THEN update_ewma(H1, d, value)
                       ELSE H1
             IN  [H2 EXCEPT !.last[d] =
                     [path |-> "classify", value |-> value,
                      len_before |-> Len(before), mean |-> mean,
                      std_sq |-> std_sq, z_sq |-> z_sq,
                      ret |-> abs_gt(z_sq, H.z_thresh[d]),
                      events |-> <<"append", "stats", "zscore", "ewma",
                                   "return">>]]

\* Variant: the z-score is taken against the drift tracker (ewma_mean,
\* ewma_var) instead of the rolling window.
detect_anomaly_ewma_gated(H, d, value) ==
    LET before == H.data_window[Slot(d)]
        w == deque_append(before, value, H.window_size[d])
        H1 == [H EXCEPT !.data_window[Slot(d)] = w]
    IN  IF not_enough(w, H.window_size[d])
        THEN [H1 EXCEPT !.last[d] =
                 [NoCall EXCEPT !.path = "early", !.value = value,
                                !.len_before = Len(before),
                                !.events = <<"append", "return">>]]
        ELSE LET mean == np_mean(w)
                 std_sq == np_std_sq(w)
                 z_sq == z_score_sq(value, H.ewma_mean[d], H.ewma_var[d])
                 H2 == update_ewma(H1, d, value)
             IN  [H2 EXCEPT !.last[d] =
                     [path |-> "classify", value |-> value,
                      len_before |-> Len(before), mean |-> mean,
                      std_sq |-> std_sq, z_sq |-> z_sq,
                      ret |-> abs_gt(z_sq, H.z_thresh[d]),
                      events |-> <<"append", "stats", "zscore", "ewma",
                                   "return">>]]

detect_anomaly(H, d, value) ==
    LET before == H.data_window[Slot(d)]
        w == deque_append(before, value, H.window_size[d])
        H1 == [H EXCEPT !.data_window[Slot(d)] = w]
    IN  IF not_enough(w, H.window_size[d])
        THEN [H1 EXCEPT !.last[d] =
                 [NoCall EXCEPT !.path = "early", !.value = value,
                                !.len_before = Len(before),
                                !.events = <<"append", "return">>]]
        ELSE LET mean == np_mean(w)
                 std_sq == np_std_sq(w)
                 z_sq == z_score_sq(value, mean, std_sq)
                 H2 == update_ewma(H1, d, value)
             IN  [H2 EXCEPT !.last[d] =
                     [path |-> "classify", value |-> value,
                      len_before |-> Len(before), mean |-> mean,
                      std_sq |-> std_sq, z_sq |-> z_sq,
                      ret |-> abs_gt(z_sq, H.z_thresh[d]),
                      events |-> <<"append", "stats", "zscore", "ewma",
                                   "return">>]]

\* ------------------------------------------------------------ actions
Init ==
    /\ status = [d \in Detectors |-> "new"]
    /\ window_size = [d \in Detectors |-> 0]
    /\ alpha = [d \in Detectors |-> Zero]
    /\ z_thresh = [d \in Detectors |-> 0]
    /\ data_window = [d \in Detectors |-> <<>>]
    /\ ewma_mean = [d \in Detectors |-> Zero]
    /\ ewma_var = [d \in Detectors |-> Zero]
    /\ inputs = [d \in Detectors |-> <<>>]
    /\ n_updates = [d \in Detectors |-> 0]
    /\ last = [d \in Detectors |-> NoCall]
    /\ x_vals = <<>>
    /\ y_vals = <<>>
    /\ anomaly_vals = <<>>
    /\ frame = 0
    /\ stream_open = TRUE
    /\ caught = "none"

\* AnomalyDetector(window_size, alpha, z_thresh); deque(maxlen=...) raises
\* ValueError for a negative maxlen, nothing else is validated.
Construct(d, ws, al, zt) ==
    /\ status[d] = "new"
    /\ window_size' = [window_size EXCEPT ![d] = ws]
    /\ alpha' = [alpha EXCEPT ![d] = al]
    /\ z_thresh' = [z_thresh EXCEPT ![d] = zt]
    /\ status' = [status EXCEPT ![d] = IF ws < 0 THEN "error" ELSE "ready"]
    /\ UNCHANGED <<data_window, ewma_mean, ewma_var, inputs, n_updates, last>>
    /\ UNCHANGED driver_vars

Install(H) ==
    /\ data_window' = H.data_window
    /\ ewma_mean' = H.ewma_mean
    /\ ewma_var' = H.ewma_var
    /\ n_updates' = H.n_updates
    /\ last' = H.last

DetectAnomaly(d, value) ==
    /\ status[d] = "ready"
    /\ Len(inputs[d]) < MaxCalls
    /\ Install(detect_anomaly(Heap, d, value))
    /\ inputs' = [inputs EXCEPT ![d] = Append(@, value)]
    /\ UNCHANGED <<status, window_size, alpha, z_thresh>>
    /\ UNCHANGED driver_vars

Next ==
    \/ \E ws \in WindowSizes, al \in Alphas, zt \in ZThresholds :
           Construct(1, ws, al, zt)
    \/ \E v \in Values : DetectAnomaly(1, v)

Spec == Init /\ [][Next]_vars

\* Two detectors built with one configuration and fed the same stream.
ConstructTwins(ws, al, zt) ==
    /\ status[1] = "new"
    /\ status[2] = "new"
    /\ window_size' = [d \in Detectors |-> ws]
    /\ alpha' = [d \in Detectors |-> al]
    /\ z_thresh' = [d \in Detectors |-> zt]
    /\ status' = [d \in Detectors |-> IF ws < 0 THEN "error" ELSE "ready"]
    /\ UNCHANGED <<data_window, ewma_mean, ewma_var, inputs, n_updates, last>>
    /\ UNCHANGED driver_vars

FeedTwins(value) ==
    /\ status[1] = "ready"
    /\ status[2] = "ready"
    /\ Len(inputs[1]) < MaxCalls
    /\ Install(detect_anomaly(detect_anomaly(Heap, 1, value), 2, value))
    /\ inputs' = [d \in Detectors |-> Append(inputs[d], value)]
    /\ UNCHANGED <<status, window_size, alpha, z_thresh>>
    /\ UNCHANGED driver_vars

NextTwin ==
    \/ \E ws \in WindowSizes, al \in Alphas, zt \in ZThresholds :
           ConstructTwins(ws, al, zt)
    \/ \E v \in Values : FeedTwins(v)

SpecTwin == Init /\ [][NextTwin]_vars

\* Two detectors that differ only in alpha, fed the same stream.
AlphaPairs == {<<Zero, R(1, 2)>>, <<R(1, 2), One>>, <<One, FromInt(2)>>}

ConstructPair(ws, al1, al2, zt) ==
    /\ status[1] = "new"
    /\ status[2] = "new"
    /\ al1 # al2
    /\ window_size' = [d \in Detectors |-> ws]
    /\ alpha' = [d \in Detectors |-> IF d = 1 THEN al1 ELSE al2]
    /\ z_thresh' = [d \in Detectors |-> zt]
    /\ status' = [d \in Detectors |-> IF ws < 0 THEN "error" ELSE "ready"]
    /\ UNCHANGED <<data_window, ewma_mean, ewma_var, inputs, n_updates, last>>
    /\ UNCHANGED driver_vars

NextAlpha ==
    \/ \E ws \in WindowSizes, p \in AlphaPairs, zt \in ZThresholds :
           ConstructPair(ws, p[1], p[2], zt)
    \/ \E v \in Values : FeedTwins(v)

SpecAlpha == Init /\ [][NextAlpha]_vars

\* ------------------------------------------------------------- driver
\* Module-level configuration (lines 8-10).
module_window_size == 10
module_z_thresh == 3
module_alpha == R(3, 10)

StreamValues == {10, 50}
ExceptionPoints == {"none", "stream", "plot"}

\* Variant: the plot is redrawn before the result is appended, so an
\* exception while plotting skips anomaly_vals.append.
update_plot_before_append(D, f, new_val, exc) ==
    IF exc = "stream" THEN D
    ELSE LET H == detect_anomaly(D.heap, 1, new_val)
         IN  [x_vals |-> Append(D.x_vals, f),
              y_vals |-> Append(D.y_vals, new_val),
              anomaly_vals |-> IF exc = "plot" THEN D.anomaly_vals
                               ELSE Append(D.anomaly_vals, H.last[1].ret),
              heap |-> H]

\* update(frame): the try block runs up to the point exc where an exception
\* is raised; the except clause only prints.
update(D, f, new_val, exc) ==
    IF exc = "stream" THEN D
    ELSE LET H == detect_anomaly(D.heap, 1, new_val)
         IN  [x_vals |-> Append(D.x_vals, f),
              y_vals |-> Append(D.y_vals, new_val),
              anomaly_vals |-> Append(D.anomaly_vals, H.last[1].ret),
              heap |-> H]

\* State after the module body up to line 91: the detector is built with the
\* module-level configuration and the lists are empty.
InitDriver ==
    /\ status = [d \in Detectors |-> IF d = 1 THEN "ready" ELSE "new"]
    /\ window_size = [d \in Detectors |->
                         IF d = 1 THEN module_window_size ELSE 0]
    /\ alpha = [d \in Detectors |-> IF d = 1 THEN module_alpha ELSE Zero]
    /\ z_thresh = [d \in Detectors |-> IF d = 1 THEN module_z_thresh ELSE 0]
    /\ data_window = [d \in Detectors |-> <<>>]
    /\ ewma_mean = [d \in Detectors |-> Zero]
    /\ ewma_var = [d \in Detectors |-> Zero]
    /\ inputs = [d \in Detectors |-> <<>>]
    /\ n_updates = [d \in Detectors |-> 0]
    /\ last = [d \in Detectors |-> NoCall]
    /\ x_vals = <<>>
    /\ y_vals = <<>>
    /\ anomaly_vals = <<>>
    /\ frame = 0
    /\ stream_open = TRUE
    /\ caught = "none"

Update(new_val, exc) ==
    /\ frame < MaxFrames
    /\ stream_open \/ exc = "stream"
    /\ LET D == update([x_vals |-> x_vals, y_vals |-> y_vals,
                        anomaly_vals |-> anomaly_vals, heap |-> Heap],
                       frame, new_val, exc)
       IN  /\ x_vals' = D.x_vals
           /\ y_vals' = D.y_vals
           /\ anomaly_vals' = D.anomaly_vals
           /\ Install(D.heap)
    /\ inputs' = IF exc = "stream" THEN inputs
                 ELSE [inputs EXCEPT ![1] = Append(@, new_val)]
    /\ frame' = frame + 1
    /\ stream_open' = (exc # "stream")
    /\ caught' = exc
    /\ UNCHANGED <<status, window_size, alpha, z_thresh>>

NextDriver == \E v \in StreamValues, exc \in ExceptionPoints : Update(v, exc)

SpecDriver == InitDriver /\ [][NextDriver]_vars

\* ------------------------------------------------------ shared notions
Ready(d) == status[d] = "ready"
Calls(d) == Len(inputs[d])
Min(a, b) == IF a < b THEN a ELSE b

RECURSIVE SumSq(_)
SumSq(s) == IF s = <<>> THEN 0 ELSE Head(s) * Head(s) + SumSq(Tail(s))

\* A detect_anomaly call on detector d is the step being taken.
Called(d) == inputs'[d] # inputs[d]

\* ---------------------------------------------------------------- C1
\* C1: for window_size = N >= 1, each of the first N-1 calls of
\* detect_anomaly returns False, whatever the values, z_thresh and alpha.
C1_WarmUpSuppression ==
    \A d \in Detectors :
        (Ready(d) /\ window_size[d] >= 1 /\ Calls(d) >= 1
            /\ Calls(d) <= window_size[d] - 1)
        => last[d].ret = FALSE

\* An extreme value arrives during warm-up under a threshold that every
\* classified value would exceed.
C1_Witness ==
    /\ Ready(1)
    /\ window_size[1] = 5
    /\ z_thresh[1] < 0
    /\ inputs[1] = <<10, 10, 10, 50>>
    /\ last[1].ret = FALSE

\* ---------------------------------------------------------------- C2
\* C2: len(data_window) <= window_size in every reachable state, and after
\* k calls len(data_window) = min(k, window_size), so it is exactly
\* window_size once k >= window_size.
C2_BoundedMemory ==
    \A d \in Detectors :
        Ready(d) =>
            /\ Len(data_window[d]) <= window_size[d]
            /\ Len(data_window[d]) = Min(Calls(d), window_size[d])

C2_Witness ==
    /\ Ready(1)
    /\ window_size[1] = 3
    /\ Calls(1) = 6
    /\ Len(data_window[1]) = 3

\* ---------------------------------------------------------------- C3
\* C3: after k calls with values v1..vk the window holds exactly the last
\* min(k, window_size) of them, oldest first.
C3_FifoEviction ==
    \A d \in Detectors :
        Ready(d) =>
            LET k == Calls(d)
                n == Min(k, window_size[d])
            IN  data_window[d] = SubSeq(inputs[d], k - n + 1, k)

\* N+1 values pushed into a window of size N = 3.
C3_Witness ==
    /\ Ready(1)
    /\ window_size[1] = 3
    /\ inputs[1] = <<10, 50, 50, 10>>
    /\ data_window[1] = <<50, 50, 10>>

\* ---------------------------------------------------------------- C4
\* C4: on the classification path with std > 0 the call returns True
\* exactly when |value - mean| / std > z_thresh, mean and std being the
\* population mean and standard deviation of the window after the append.
\* With N samples of sum S and sum of squares Q: mean = S/N,
\* std^2 = (N*Q - S^2)/N^2, and the test is
\* z_thresh < 0 or (N*value - S)^2 > z_thresh^2 * (N*Q - S^2).
C4_DecisionRule ==
    \A d \in Detectors :
        (Ready(d) /\ last[d].path = "classify" /\ window_size[d] >= 1) =>
            LET w == data_window[d]
                N == Len(w)
                S == SumSeq(w)
                D == N * SumSq(w) - S * S
                v == last[d].value
                zt == z_thresh[d]
            IN  /\ N = window_size[d]
                /\ w[N] = v
                /\ last[d].mean.n * N = S * last[d].mean.d
                /\ last[d].std_sq.n * N * N = D * last[d].std_sq.d
                /\ D > 0 =>
                     (last[d].ret <=>
                        (zt < 0 \/ (N * v - S) * (N * v - S) > zt * zt * D))

\* window_size = 5, z_thresh = 3, inputs 10,10,10,10,50: mean 18, std 16,
\* z = 2, result False.
C4_Witness ==
    /\ Ready(1)
    /\ window_size[1] = 5
    /\ z_thresh[1] = 3
    /\ inputs[1] = <<10, 10, 10, 10, 50>>
    /\ last[1].mean = FromInt(18)
    /\ last[1].std_sq = FromInt(16 * 16)
    /\ last[1].z_sq = FromInt(2 * 2)
    /\ last[1].ret = FALSE

\* ---------------------------------------------------------------- C5
\* C5: when the window after the append is full and all its values are
\* equal, the call takes z = 0 without dividing and returns False for every
\* z_thresh > 0.
AllEqual(w) == \A i \in 1 .. Len(w) : w[i] = w[1]

ValidAlpha(a) == RGt(a, Zero) /\ ~RGt(a, One)

\* C6: after the first drift update a detector performs, with value v,
\* ewma_mean = v and ewma_var = 0, for every v and alpha in (0,1].
C6_EwmaColdStart ==
    \A d \in Detectors :
        (Ready(d) /\ ValidAlpha(alpha[d]) /\ n_updates[d] = 1)
        => /\ ewma_mean[d] = FromInt(last[d].value)
           /\ ewma_var[d] = Zero

\* ---------------------------------------------------------------- C7
InvalidConfig(d) ==
    \/ window_size[d] <= 0
    \/ ~ValidAlpha(alpha[d])
    \/ z_thresh[d] <= 0

\* C7: construction with window_size <= 0, alpha outside (0,1] or
\* z_thresh <= 0 ends in an error, so no detect_anomaly call runs on such a
\* configuration.
C7_ConfigRejected ==
    \A d \in Detectors :
        (status[d] # "new" /\ InvalidConfig(d))
        => /\ status[d] = "error"
           /\ inputs[d] = <<>>

\* ---------------------------------------------------------------- C8
SameConfig ==
    /\ window_size[1] = window_size[2]
    /\ alpha[1] = alpha[2]
    /\ z_thresh[1] = z_thresh[2]

Appended(d) == data_window'[d] = Append(data_window[d], last'[d].value)

DriftUntouched(d) ==
    /\ ewma_mean'[d] = ewma_mean[d]
    /\ ewma_var'[d] = ewma_var[d]
    /\ n_updates'[d] = n_updates[d]

\* C9 as stated: every call that begins with fewer than window_size samples
\* in the window appends the value, leaves ewma_mean and ewma_var unchanged
\* and returns False.
C9_WarmingUpStep ==
    [][\A d \in Detectors :
          (Called(d) /\ Len(data_window[d]) < window_size[d])
          => /\ Appended(d)
             /\ DriftUntouched(d)
             /\ last'[d].ret = FALSE]_vars

\* C9 amended: a call that begins with fewer than window_size - 1 samples
\* (the window is still not full after its append) appends the value, leaves
\* the drift tracker unchanged and returns False; the call that begins with
\* exactly window_size - 1 samples appends the value, fills the window and
\* takes the classification path, drift update included.
C9_WarmingUpStepAmended ==
    [][\A d \in Detectors :
          Called(d) =>
             /\ Len(data_window[d]) < window_size[d] - 1
                => /\ Appended(d)
                   /\ DriftUntouched(d)
                   /\ last'[d].path = "early"
                   /\ last'[d].ret = FALSE
             /\ Len(data_window[d]) = window_size[d] - 1
                => /\ Appended(d)
                   /\ Len(data_window'[d]) = window_size[d]
                   /\ last'[d].path = "classify"
                   /\ n_updates'[d] = n_updates[d] + 1]_vars

\* A warm-up call with an extreme value under a threshold that every
\* classified value would exceed; the drift tracker is still as constructed.
C9_Witness ==
    /\ Ready(1)
    /\ window_size[1] = 4
    /\ z_thresh[1] < 0
    /\ inputs[1] = <<10, 50>>
    /\ data_window[1] = <<10, 50>>
    /\ last[1].path = "early"
    /\ last[1].ret = FALSE
    /\ n_updates[1] = 0
    /\ ewma_mean[1] = Zero
    /\ ewma_var[1] = Zero

\* --------------------------------------------------------------- C10
Full(d) == Len(data_window[d]) = window_size[d]

\* C10: for window_size >= 1, once a call has left the window full, the
\* window is full after every later call and every later call takes the
\* classification path (statistics, z-score, drift update), never the
\* early return; so WarmingUp is left once and never re-entered.
C10_OneWayTransition ==
    [][\A d \in Detectors :
          (Ready(d) /\ window_size[d] >= 1 /\ Full(d))
          => /\ Len(data_window'[d]) = window_size[d]
             /\ Called(d)
                => /\ last'[d].path = "classify"
                   /\ last'[d].events
                        = <<"append", "stats", "zscore", "ewma", "return">>
                   /\ n_updates'[d] = n_updates[d] + 1]_vars

\* Several calls after the window first became full.
C10_Witness ==
    /\ Ready(1)
    /\ window_size[1] = 2
    /\ Calls(1) = 6
    /\ Full(1)
    /\ last[1].path = "classify"
    /\ n_updates[1] = 5

\* --------------------------------------------------------------- C11
\* alpha*v + (1 - alpha)*m
Blend(a, v, m) == RAdd(RMul(a, v), RMul(RSub(One, a), m))

\* What one update_ewma(v) leaves in ewma_mean, given the window it sees.
MeanAfterUpdate(d, v, w) ==
    IF Len(w) = 0 THEN FromInt(v)
    ELSE Blend(alpha[d], FromInt(v), ewma_mean[d])

\* C11: a call that reaches the classification path appends first (evicting
\* the oldest sample at capacity), takes mean and std over the post-append
\* window, computes the z-score, runs update_ewma exactly once with that
\* call's value and then returns; the drift update runs on every such call,
\* also when std = 0 and when the result is False.
C11_ActiveStepOrdering ==
    [][\A d \in Detectors :
          (Called(d) /\ last'[d].path = "classify") =>
             LET v == last'[d].value
                 w == data_window'[d]
                 k == Len(inputs'[d])
                 n == Min(k, window_size[d])
             IN  /\ inputs'[d] = Append(inputs[d], v)
                 /\ w = SubSeq(inputs'[d], k - n + 1, k)
                 /\ last'[d].mean = R(SumSeq(w), Len(w))
                 /\ last'[d].events
                      = <<"append", "stats", "zscore", "ewma", "return">>
                 /\ n_updates'[d] = n_updates[d] + 1
                 /\ ewma_mean'[d] = MeanAfterUpdate(d, v, w)]_vars

\* A classified call on a flat window (std = 0) that returned False and
\* still moved the drift tracker: 10, 10, 10 with window_size 2, alpha 1/2.
C11_Witness ==
    /\ Ready(1)
    /\ window_size[1] = 2
    /\ alpha[1] = R(1, 2)
    /\ inputs[1] = <<10, 10, 10>>
    /\ last[1].path = "classify"
    /\ last[1].std_sq = Zero
    /\ last[1].ret = FALSE
    /\ n_updates[1] = 2
    /\ ewma_mean[1] = R(15, 2)

\* --------------------------------------------------------------- C12
Updated(d) == Called(d) /\ n_updates'[d] = n_updates[d] + 1

FollowsRecurrence(d) ==
    LET v == FromInt(last'[d].value)
    IN  /\ ewma_mean'[d] = Blend(alpha[d], v, ewma_mean[d])
        /\ ewma_var'[d]
             = Blend(alpha[d], RSq(RSub(v, ewma_mean'[d])), ewma_var[d])

\* C12: on every drift update after a detector's first, with pre-state
\* (m, s) and value v, ewma_mean = alpha*v + (1-alpha)*m and
\* ewma_var = alpha*(v - ewma_mean_new)^2 + (1-alpha)*s, the variance using
\* the just-updated mean.  Stated here for alpha in (0,1] and z_thresh > 0.
C12_EwmaRecurrence ==
    [][\A d \in Detectors :
          (Updated(d) /\ n_updates[d] >= 1 /\ ValidAlpha(alpha[d])
              /\ z_thresh[d] > 0)
          => FollowsRecurrence(d)]_vars

\* The recurrence on every update of a detector with window_size >= 1, the
\* first update included.
C12_RecurrenceNonEmptyWindow ==
    [][\A d \in Detectors :
          (Updated(d) /\ window_size[d] >= 1) => FollowsRecurrence(d)]_vars

\* --------------------------------------------------------------- C13
\* C13: two detectors with the same window_size and z_thresh but different
\* alpha, fed the same input sequence, return identical results at every
\* step, whatever their ewma_mean and ewma_var have become.
C13_DecisionIgnoresDrift ==
    (Ready(1) /\ Ready(2) /\ window_size[1] = window_size[2]
        /\ z_thresh[1] = z_thresh[2] /\ alpha[1] # alpha[2]
        /\ inputs[1] = inputs[2])
    => /\ last[1].ret = last[2].ret
       /\ last[1].path = last[2].path
       /\ last[1].z_sq = last[2].z_sq

\* Both detectors flag the same value while their drift trackers differ.
C13_Witness ==
    /\ Ready(1)
    /\ Ready(2)
    /\ window_size[1] = 3
    /\ z_thresh[1] = 1
    /\ alpha[1] = R(1, 2)
    /\ alpha[2] = One
    /\ inputs[1] = <<10, 10, 10, 10, 50>>
    /\ inputs[2] = inputs[1]
    /\ ewma_mean[1] # ewma_mean[2]
    /\ ewma_var[1] # ewma_var[2]
    /\ last[1].ret = TRUE
    /\ last[2].ret = TRUE

\* --------------------------------------------------------------- C14
\* C14: for alpha in (0,1], ewma_var >= 0 in every reachable state of a
\* detector: at construction, throughout warm-up and after every drift
\* update, for every input sequence.
C14_VarianceNonNegative ==
    \A d \in Detectors :
        (Ready(d) /\ ValidAlpha(alpha[d]))
        => /\ ~IsNaN(ewma_var[d])
           /\ ewma_var[d].n >= 0

\* Several updates with values on both sides of the tracked mean have left
\* a strictly positive variance.
C14_Witness ==
    /\ Ready(1)
    /\ alpha[1] = R(1, 2)
    /\ window_size[1] = 2
    /\ inputs[1] = <<10, 50, 0 - 30, 50, 10>>
    /\ n_updates[1] = 4
    /\ RGt(ewma_var[1], Zero)

\* --------------------------------------------------------------- C15
\* C15: for any constructed detector and any sequence of calls, every
\* evaluation of the window mean and standard deviation happens on a window
\* holding at least one sample, in fact exactly window_size samples.  The
\* statistics of a classified call are taken over data_window as that call
\* leaves it.
C15_StatsNeverOnEmptyWindow ==
    \A d \in Detectors :
        (Ready(d) /\ last[d].path = "classify")
        => /\ Len(data_window[d]) >= 1
           /\ Len(data_window[d]) = window_size[d]
           /\ ~IsNaN(last[d].mean)
           /\ ~IsNaN(last[d].std_sq)

\* The same for detectors built with window_size >= 1.
C15_StatsOnFullWindow ==
    \A d \in Detectors :
        (Ready(d) /\ window_size[d] >= 1 /\ last[d].path = "classify")
        => /\ Len(data_window[d]) = window_size[d]
           /\ ~IsNaN(last[d].mean)
           /\ ~IsNaN(last[d].std_sq)

\* --------------------------------------------------------------- C16
\* C16: every z-score computed by detect_anomaly satisfies
\* z^2 <= window_size - 1, hence the call returns False whenever
\* z_thresh^2 >= window_size - 1.
C16_ZScoreCeiling ==
    \A d \in Detectors :
        (Ready(d) /\ last[d].path = "classify")
        => /\ ~RGt(last[d].z_sq, FromInt(window_size[d] - 1))
           /\ z_thresh[d] * z_thresh[d] >= window_size[d] - 1
                => last[d].ret = FALSE

\* The ceiling for window_size >= 1 and z_thresh >= 0, with its integer
\* form (N*v - S)^2 <= (N-1)*(N*Q - S^2).
C16_CeilingPositiveConfig ==
    \A d \in Detectors :
        (Ready(d) /\ window_size[d] >= 1 /\ z_thresh[d] >= 0
            /\ last[d].path = "classify")
        => LET w == data_window[d]
               N == Len(w)
               S == SumSeq(w)
               v == last[d].value
           IN  /\ (N * v - S) * (N * v - S)
                    <= (N - 1) * (N * SumSq(w) - S * S)
               /\ ~RGt(last[d].z_sq, FromInt(N - 1))
               /\ z_thresh[d] * z_thresh[d] >= N - 1
                    => last[d].ret = FALSE

\* --------------------------------------------------------------- C17
\* The result detect_anomaly gives the i-th sample of stream ys under the
\* module configuration: False during warm-up, then the z-test over the
\* window_size samples ending at i.
ResultFor(ys, i) ==
    IF i < module_window_size THEN FALSE
    ELSE LET w == SubSeq(ys, i - module_window_size + 1, i)
             N == Len(w)
             S == SumSeq(w)
             D == N * SumSq(w) - S * S
         IN  /\ D > 0
             /\ (N * ys[i] - S) * (N * ys[i] - S)
                  > module_z_thresh * module_z_thresh * D

\* C17: after every update(frame) call x_vals, y_vals and anomaly_vals have
\* equal length, y_vals is the sequence of samples pulled from the stream
\* in arrival order and anomaly_vals[i] is the result detect_anomaly
\* returned for y_vals[i]; also after calls whose exception was caught.
C17_DriverEmissionOrder ==
    /\ Len(x_vals) = Len(y_vals)
    /\ Len(anomaly_vals) = Len(y_vals)
    /\ y_vals = inputs[1]
    /\ \A i \in 1 .. Len(anomaly_vals) :
          anomaly_vals[i] = ResultFor(y_vals, i)
    /\ Len(y_vals) >= 1 => anomaly_vals[Len(y_vals)] = last[1].ret

\* Ten samples have been pulled, the tenth was classified, and the call
\* that handled it raised while plotting.
C17_Witness ==
    /\ frame = 10
    /\ caught = "plot"
    /\ Len(y_vals) = 10
    /\ Len(anomaly_vals) = 10
    /\ y_vals[10] = 50
    /\ last[1].path = "classify"

====
